---------------------------- MODULE Spec2Model ----------------------------
(***************************************************************************)
(* Verification model of video-analysis-backend:                           *)
(*   analysis_pipeline.py  similar, categorize_scenes,                     *)
(*                         representative_caption,                         *)
(*                         combine_scenes_with_transcript, analyze_emotions*)
(*   tasks.py              process_video_task                              *)
(*   main.py               upload_video, analyze_video_endpoint,           *)
(*                         get_analysis                                    *)
(*                                                                         *)
(* Strings are sequences of one-character strings.  Similarity ratios and  *)
(* thresholds are exact rationals <<numerator, denominator>>; for the      *)
(* operand sizes used here the correctly rounded float quotient compares   *)
(* with a float threshold exactly as the rationals do.  Times are kept in  *)
(* ticks of 1/TicksPerSecond second.                                       *)
(*                                                                         *)
(* Each function of the pipeline has its own specification (SpecScenes,    *)
(* SpecRep, SpecCombine, SpecEmotions); the job machinery has SpecJobs and *)
(* SpecStatus.  A specification leaves the variables of the others at      *)
(* their idle values.                                                      *)
(***************************************************************************)
EXTENDS Integers, Sequences, FiniteSets, TLC

VARIABLES
    \* parameters and locals of the pipeline functions
    captions, threshold, max_gap, fps, current, scenes, i, pc,
    rep,
    transcript_segments, combined,
    duration, sample_rate, emotions, raised,
    \* upload directory, worker tasks and result backend
    storage, uploads, video_path, artifact, task_pc, stage, exc, removed,
    backend,
    \* one get_analysis request at a time
    ga_pc, res, response, last_percent

jobVars == <<storage, uploads, video_path, artifact, task_pc, stage, exc,
             removed, backend>>
gaVars == <<ga_pc, res, response, last_percent>>

vars == <<captions, threshold, max_gap, fps, current, scenes, i, pc, rep,
          transcript_segments, combined, duration, sample_rate, emotions,
          raised, jobVars, gaVars>>

scOnly == <<threshold, max_gap, fps, current>>
cbOnly == <<transcript_segments, combined>>
emOnly == <<duration, sample_rate, emotions, raised>>

----------------------------------------------------------------------------
(* Bounds and input sets *)

MaxCaptions == 4
MaxGap == 1

TicksPerSecond == 10

CatOnMat == <<"a"," ","c","a","t"," ","o","n"," ","a"," ","m","a","t">>
DogRunning == <<"a"," ","d","o","g"," ","r","u","n","n","i","n","g">>
DogRunsFast == <<"a"," ","d","o","g"," ","r","u","n","s"," ","f","a","s","t">>

Pool == { <<"x">>, <<"y">>, <<"x","y">>, CatOnMat, DogRunning, DogRunsFast }

Thresholds == { <<6, 10>>, <<7, 10>> }
FpsSet == { 1, 2 }

SeqsUpTo(S, n) == UNION { [1..k -> S] : k \in 0..n }

----------------------------------------------------------------------------
(* similar(a, b): difflib.SequenceMatcher(None, a, b).ratio() *)

Min(S) == CHOOSE m \in S : \A y \in S : m <= y
Max(S) == CHOOSE m \in S : \A y \in S : m >= y

\* length of the common run a[ai..], b[bj..] inside a[..ahi), b[..bhi)
\* (0-based positions, as in difflib)
RECURSIVE RunLen(_, _, _, _, _, _)
RunLen(a, b, ai, bj, ahi, bhi) ==
    IF ai < ahi /\ bj < bhi /\ a[ai + 1] = b[bj + 1]
    THEN 1 + RunLen(a, b, ai + 1, bj + 1, ahi, bhi)
    ELSE 0

\* find_longest_match: the longest block; of those the one starting
\* earliest in a; of those the one starting earliest in b
find_longest_match(a, b, alo, ahi, blo, bhi) ==
    LET cands == { <<ai, bj, RunLen(a, b, ai, bj, ahi, bhi)>> :
                       ai \in alo..(ahi - 1), bj \in blo..(bhi - 1) }
    IN  IF cands = {} THEN <<alo, blo, 0>>
        ELSE LET k == Max({ c[3] : c \in cands })
                 ai == Min({ c[1] : c \in { d \in cands : d[3] = k } })
                 bj == Min({ c[2] : c \in { d \in cands : d[3] = k /\ d[1] = ai } })
             IN  IF k = 0 THEN <<alo, blo, 0>> ELSE <<ai, bj, k>>

\* sum of the sizes of get_matching_blocks
RECURSIVE Matches(_, _, _, _, _, _)
Matches(a, b, alo, ahi, blo, bhi) ==
    IF alo >= ahi \/ blo >= bhi THEN 0
    ELSE LET m == find_longest_match(a, b, alo, ahi, blo, bhi)
         IN  IF m[3] = 0 THEN 0
             ELSE m[3] + Matches(a, b, alo, m[1], blo, m[2])
                       + Matches(a, b, m[1] + m[3], ahi, m[2] + m[3], bhi)

ratio(a, b) ==
    LET length == Len(a) + Len(b)
    IN  IF length = 0 THEN <<1, 1>>
        ELSE <<2 * Matches(a, b, 0, Len(a), 0, Len(b)), length>>

\* the ratios of the pool, computed once
SimTable == { <<a, b, ratio(a, b)>> : a \in Pool, b \in Pool }

similar(a, b) == (CHOOSE t \in SimTable : t[1] = a /\ t[2] = b)[3]

\* r >= t on rationals with positive denominators
GE(r, t) == r[1] * t[2] >= t[1] * r[2]

----------------------------------------------------------------------------
(* categorize_scenes *)

NoCurrent == [captions |-> <<>>, start_idx |-> 0, end_idx |-> 0,
              anchor |-> <<>>, gap |-> 0]

\* idx / fps, in ticks
TimeOf(idx, f) == (idx * TicksPerSecond) \div f

SceneOf(cur, f) ==
    [captions |-> cur.captions,
     start_time |-> TimeOf(cur.start_idx, f),
     end_time |-> TimeOf(cur.end_idx, f)]

OpenScene(curr, idx) ==
    [captions |-> <<curr>>, start_idx |-> idx, end_idx |-> idx + 1,
     anchor |-> curr, gap |-> 0]

Accepts(curr, prev, anchor, th) ==
    GE(similar(curr, prev), th) \/ GE(similar(curr, anchor), th)

\* faulty variant: the gap budget is off by one
TolerantOffByOne(gap, mg) == gap + 1 < mg

Tolerates(gap, mg) == gap < mg


\* faulty variant: an accepted caption becomes the new anchor
AcceptReanchoring(cur, curr, idx) ==
    [cur EXCEPT !.captions = Append(@, curr), !.end_idx = idx + 1, !.gap = 0,
                !.anchor = curr]

AcceptInto(cur, curr, idx) ==
    [cur EXCEPT !.captions = Append(@, curr), !.end_idx = idx + 1, !.gap = 0]

\* faulty variant: a tolerated caption does not extend the scene's range
TolerateNoEnd(cur, curr, idx) ==
    [cur EXCEPT !.captions = Append(@, curr), !.gap = @ + 1]

TolerateInto(cur, curr, idx) ==
    [cur EXCEPT !.captions = Append(@, curr), !.end_idx = idx + 1,
                !.gap = @ + 1]

\* idle values of the variables a specification does not use
ScIdle ==
    /\ threshold = <<6, 10>>
    /\ max_gap = 1
    /\ fps = 1
    /\ current = NoCurrent

RcIdle == rep = <<>>

CbIdle ==
    /\ transcript_segments = <<>>
    /\ combined = <<>>

EmIdle ==
    /\ duration = 0
    /\ sample_rate = 1
    /\ emotions = <<>>
    /\ raised = "none"

IdleInfo == [kind |-> "none", percent |-> 0, step |-> "", error |-> ""]
IdleResponse == [status |-> "none", percent |-> -1, step |-> "",
                 error |-> "", result |-> "none"]

\* no upload, no job, no request
JobsIdle ==
    /\ storage = <<>> /\ uploads = 0
    /\ video_path = <<>> /\ artifact = <<>> /\ task_pc = <<>>
    /\ stage = <<>> /\ exc = <<>> /\ removed = <<>> /\ backend = <<>>
    /\ ga_pc = "idle"
    /\ res = [id |-> 0, cache |-> [status |-> "none", info |-> IdleInfo]]
    /\ response = IdleResponse
    /\ last_percent = -1

CsInit ==
    /\ captions \in SeqsUpTo(Pool, MaxCaptions)
    /\ threshold \in Thresholds
    /\ max_gap \in 0..MaxGap
    /\ fps \in FpsSet
    /\ current = NoCurrent
    /\ scenes = <<>>
    /\ i = 0
    /\ pc = "start"
    /\ RcIdle /\ CbIdle /\ EmIdle /\ JobsIdle

CsFixed == <<captions, threshold, max_gap, fps, rep, cbOnly, emOnly,
             jobVars, gaVars>>

\* if not captions: return []
CsEmpty ==
    /\ pc = "start"
    /\ captions = <<>>
    /\ pc' = "done"
    /\ UNCHANGED <<CsFixed, current, scenes, i>>

CsOpen ==
    /\ pc = "start"
    /\ captions # <<>>
    /\ current' = OpenScene(captions[1], 0)
    /\ i' = 1
    /\ pc' = "loop"
    /\ UNCHANGED <<CsFixed, scenes>>

CsAccept ==
    /\ pc = "loop"
    /\ i < Len(captions)
    /\ Accepts(captions[i + 1], captions[i], current.anchor, threshold)
    /\ current' = AcceptInto(current, captions[i + 1], i)
    /\ i' = i + 1
    /\ UNCHANGED <<CsFixed, scenes, pc>>

CsTolerate ==
    /\ pc = "loop"
    /\ i < Len(captions)
    /\ ~Accepts(captions[i + 1], captions[i], current.anchor, threshold)
    /\ Tolerates(current.gap, max_gap)
    /\ current' = TolerateInto(current, captions[i + 1], i)
    /\ i' = i + 1
    /\ UNCHANGED <<CsFixed, scenes, pc>>

CsSplit ==
    /\ pc = "loop"
    /\ i < Len(captions)
    /\ ~Accepts(captions[i + 1], captions[i], current.anchor, threshold)
    /\ ~Tolerates(current.gap, max_gap)
    /\ scenes' = Append(scenes, SceneOf(current, fps))
    /\ current' = OpenScene(captions[i + 1], i)
    /\ i' = i + 1
    /\ UNCHANGED <<CsFixed, pc>>

CsReturn ==
    /\ pc = "loop"
    /\ i = Len(captions)
    /\ scenes' = Append(scenes, SceneOf(current, fps))
    /\ pc' = "done"
    /\ UNCHANGED <<CsFixed, current, i>>

CsNext == CsEmpty \/ CsOpen \/ CsAccept \/ CsTolerate \/ CsSplit \/ CsReturn

SpecScenes == CsInit /\ [][CsNext]_vars

----------------------------------------------------------------------------
(* Claims about categorize_scenes *)

\* the caption index a returned time stands for: time * fps
IsIndex(time) == (time * fps) % TicksPerSecond = 0
IndexOf(time) == (time * fps) \div TicksPerSecond
StartIdx(k) == IndexOf(scenes[k].start_time)
EndIdx(k) == IndexOf(scenes[k].end_time)

ExampleShape ==
    /\ Len(captions) = 4
    /\ threshold = <<6, 10>> /\ max_gap = 1 /\ fps = 1
    /\ captions[2] = captions[1]
    /\ ~GE(similar(captions[3], captions[2]), threshold)
    /\ GE(similar(captions[4], captions[3]), threshold)
    /\ ~GE(similar(captions[4], captions[1]), threshold)

\* C6 as stated: the example input gives exactly 2 scenes, [0,2) and [2,4).
C6_ExampleTwoScenes ==
    (pc = "done" /\ ExampleShape) =>
        /\ Len(scenes) = 2
        /\ StartIdx(1) = 0 /\ EndIdx(1) = 2
        /\ StartIdx(2) = 2 /\ EndIdx(2) = 4

\* C6 amended: the example input gives exactly 1 scene spanning [0,4): B is
\* kept as the one tolerated outlier (gap 0 < max_gap 1) and B2 is accepted
\* against its predecessor B.
C6_ExampleOneScene ==
    (pc = "done" /\ ExampleShape) =>
        /\ Len(scenes) = 1
        /\ StartIdx(1) = 0 /\ EndIdx(1) = 4
        /\ scenes[1].captions = captions

C6_Witness ==
    /\ pc = "done"
    /\ ExampleShape
    /\ captions = <<CatOnMat, CatOnMat, DogRunning, DogRunsFast>>
    /\ Len(scenes) = 1

\* a step that took the acceptance branch: the scene stays open, the gap
\* count is (re)set to 0 and one caption was consumed
AcceptStep ==
    /\ pc = "loop" /\ pc' = "loop"
    /\ i' = i + 1
    /\ current'.start_idx = current.start_idx
    /\ current'.gap = 0

\* a step that keeps the open scene open
SameSceneStep ==
    /\ pc = "loop" /\ pc' = "loop"
    /\ current'.start_idx = current.start_idx

\* C10 as stated: the anchor of an open scene is never changed, and every
\* caption joining through the acceptance branch is at least threshold-
\* similar to that anchor.
C10_AcceptedNearAnchor ==
    [][ /\ (SameSceneStep => current'.anchor = current.anchor)
        /\ (AcceptStep =>
               GE(similar(captions[i + 1], current.anchor), threshold)) ]_vars

\* C10 amended: the anchor of an open scene is never changed, and every
\* caption joining through the acceptance branch is at least threshold-
\* similar to the anchor or to the caption immediately before it.
C10_AcceptedNearAnchorOrPrev ==
    [][ /\ (SameSceneStep => current'.anchor = current.anchor)
        /\ (AcceptStep =>
               \/ GE(similar(captions[i + 1], current.anchor), threshold)
               \/ GE(similar(captions[i + 1], captions[i]), threshold)) ]_vars

\* a caption was accepted through its predecessor only, far from the anchor
C10_Witness ==
    /\ pc = "loop"
    /\ i >= 3
    /\ current.start_idx = 0
    /\ current.gap = 0
    /\ Len(current.captions) = i
    /\ current.anchor = captions[1]
    /\ GE(similar(captions[i], captions[i - 1]), threshold)
    /\ ~GE(similar(captions[i], current.anchor), threshold)

----------------------------------------------------------------------------
(* representative_caption *)

MaxRep == 3

\* exact rationals
RECURSIVE Gcd(_, _)
Gcd(m, n) == IF n = 0 THEN m ELSE Gcd(n, m % n)

RatAdd(r, t) ==
    LET n == r[1] * t[2] + t[1] * r[2]
        d == r[2] * t[2]
        g == Gcd(n, d)
    IN  <<n \div g, d \div g>>

RatGT(r, t) == r[1] * t[2] > t[1] * r[2]

\* s = 0.0; for j in range(n): if i == j: continue; s += similar(ai, caps[j])
\* (ii and j are 1-based here)
RECURSIVE InnerSum(_, _, _, _)
InnerSum(caps, ii, j, s) ==
    IF j > Len(caps) THEN s
    ELSE InnerSum(caps, ii, j + 1,
                  IF ii = j THEN s
                  ELSE RatAdd(s, similar(caps[ii], caps[j])))

\* faulty variant: a later maximum replaces an earlier equal one
RECURSIVE ArgMaxLast(_, _, _)
ArgMaxLast(sc, k, best) ==
    IF k > Len(sc) THEN best
    ELSE ArgMaxLast(sc, k + 1, IF RatGT(sc[best], sc[k]) THEN best ELSE k)

\* max(range(n), key=lambda i: scores[i]): the first maximum in an
\* ascending scan (k and best are 1-based)
RECURSIVE ArgMax(_, _, _)
ArgMax(sc, k, best) ==
    IF k > Len(sc) THEN best
    ELSE ArgMax(sc, k + 1, IF RatGT(sc[k], sc[best]) THEN k ELSE best)

\* returns <<best_caption, index_of_best (0-based), scores>>
representative_caption(caps) ==
    LET n == Len(caps)
    IN  IF n = 0 THEN << <<>>, -1, <<>> >>
        ELSE IF n = 1 THEN << caps[1], 0, << <<1, 1>> >> >>
        ELSE LET scores == [ii \in 1..n |-> InnerSum(caps, ii, 1, <<0, 1>>)]
                 best_i == ArgMax(scores, 1, 1)
             IN  << caps[best_i], best_i - 1, scores >>

RcInit ==
    /\ captions \in SeqsUpTo(Pool, MaxRep)
    /\ rep = <<>>
    /\ pc = "start"
    /\ scenes = <<>>
    /\ i = 0
    /\ ScIdle /\ CbIdle /\ EmIdle /\ JobsIdle

RcCall ==
    /\ pc = "start"
    /\ rep' = representative_caption(captions)
    /\ pc' = "done"
    /\ UNCHANGED <<captions, scenes, i, scOnly, cbOnly, emOnly, jobVars,
                   gaVars>>

RcNext == RcCall

SpecRep == RcInit /\ [][RcNext]_vars

\* the aggregate score of caption k (1-based): the sum over the other
\* positions of similar(caption[k], caption[j])
RECURSIVE SumOver(_, _, _)
SumOver(caps, k, J) ==
    IF J = {} THEN <<0, 1>>
    ELSE LET j == CHOOSE x \in J : TRUE
         IN  RatAdd(similar(caps[k], caps[j]), SumOver(caps, k, J \ {j}))

Aggregate(caps, k) == SumOver(caps, k, (1..Len(caps)) \ {k})

\* C9: for a non-empty list the returned index has the maximal aggregate
\* score, is the smallest index among those that tie for it, and comes with
\* that caption's text; a single caption gives index 0 and scores [1.0].
C9_FirstMedoid ==
    (pc = "done" /\ captions # <<>>) =>
        LET b == rep[2] + 1
        IN  /\ b \in 1..Len(captions)
            /\ rep[1] = captions[b]
            /\ \A k \in 1..Len(captions) :
                  ~RatGT(Aggregate(captions, k), Aggregate(captions, b))
            /\ \A k \in 1..(b - 1) :
                  RatGT(Aggregate(captions, b), Aggregate(captions, k))
            /\ (Len(captions) = 1 => rep[2] = 0 /\ rep[3] = << <<1, 1>> >>)

\* the example ["x","x","y"]: indices 0 and 1 tie, index 0 is returned
C9_Witness ==
    /\ pc = "done"
    /\ captions = << <<"x">>, <<"x">>, <<"y">> >>
    /\ rep[2] = 0
    /\ rep[1] = <<"x">>
    /\ ~RatGT(Aggregate(captions, 1), Aggregate(captions, 2))
    /\ ~RatGT(Aggregate(captions, 2), Aggregate(captions, 1))

----------------------------------------------------------------------------
(* combine_scenes_with_transcript *)

MaxScenes == 2
MaxSegments == 2

SceneChoices ==
    { [captions |-> << <<"x">> >>, start_time |-> 0, end_time |-> 10],
      [captions |-> << <<"x">>, <<"x">>, <<"y">> >>,
       start_time |-> 10, end_time |-> 20],
      [captions |-> << <<"y">>, <<"x","y">> >>,
       start_time |-> 0, end_time |-> 20],
      [captions |-> << <<"x","y">> >>, start_time |-> 10, end_time |-> 10] }

SegmentSpans == { <<9, 11>>, <<0, 9>>, <<10, 10>>, <<11, 20>> }
SegmentTexts == { "hello", "there" }

SegmentChoices ==
    { [start |-> sp[1], end |-> sp[2], text |-> tx] :
          sp \in SegmentSpans, tx \in SegmentTexts }

\* faulty variant: a segment is attached when it merely overlaps the scene
Overlaps(scene, seg) ==
    /\ seg.start <= scene.end_time
    /\ seg.end >= scene.start_time

\* scene["start_time"] <= float(seg["start"]) <= scene["end_time"]
\* and scene["start_time"] <= float(seg["end"]) <= scene["end_time"]
Within(scene, seg) ==
    /\ scene.start_time <= seg.start /\ seg.start <= scene.end_time
    /\ scene.start_time <= seg.end /\ seg.end <= scene.end_time

\* [seg["text"] for seg in transcript_segments if ...]
RECURSIVE scene_dialogue(_, _, _)
scene_dialogue(scene, segs, k) ==
    IF k > Len(segs) THEN <<>>
    ELSE IF Within(scene, segs[k])
         THEN <<segs[k].text>> \o scene_dialogue(scene, segs, k + 1)
         ELSE scene_dialogue(scene, segs, k + 1)

CombinedOf(scene, segs) ==
    [start_time |-> scene.start_time,
     end_time |-> scene.end_time,
     description |-> representative_caption(scene.captions)[1],
     dialogue |-> scene_dialogue(scene, segs, 1)]

CbInit ==
    /\ scenes \in SeqsUpTo(SceneChoices, MaxScenes)
    /\ transcript_segments \in SeqsUpTo(SegmentChoices, MaxSegments)
    /\ combined = <<>>
    /\ pc = "loop"
    /\ captions = <<>>
    /\ i = 0
    /\ ScIdle /\ RcIdle /\ EmIdle /\ JobsIdle

CbFixed == <<captions, scenes, i, scOnly, rep, transcript_segments, emOnly,
             jobVars, gaVars>>

\* one iteration of "for scene in scenes"
CbScene ==
    /\ pc = "loop"
    /\ Len(combined) < Len(scenes)
    /\ combined' = Append(combined,
                          CombinedOf(scenes[Len(combined) + 1],
                                     transcript_segments))
    /\ UNCHANGED <<CbFixed, pc>>

CbReturn ==
    /\ pc = "loop"
    /\ Len(combined) = Len(scenes)
    /\ pc' = "done"
    /\ UNCHANGED <<CbFixed, combined>>

CbNext == CbScene \/ CbReturn

SpecCombine == CbInit /\ [][CbNext]_vars

\* positions of the segments with both ends in the closed interval of scene k
InsideScene(k) ==
    { s \in 1..Len(transcript_segments) :
        /\ transcript_segments[s].start >= scenes[k].start_time
        /\ transcript_segments[s].start <= scenes[k].end_time
        /\ transcript_segments[s].end >= scenes[k].start_time
        /\ transcript_segments[s].end <= scenes[k].end_time }

\* the texts of the positions P, in transcript order
RECURSIVE TextsAt(_, _)
TextsAt(P, from) ==
    IF from > Len(transcript_segments) THEN <<>>
    ELSE (IF from \in P THEN <<transcript_segments[from].text>> ELSE <<>>)
         \o TextsAt(P, from + 1)

\* a segment whose start lies in one scene and whose end lies in another,
\* with no scene holding both
Straddles(s) ==
    LET seg == transcript_segments[s]
        HasStart(k) == scenes[k].start_time <= seg.start
                       /\ seg.start <= scenes[k].end_time
        HasEnd(k) == scenes[k].start_time <= seg.end
                     /\ seg.end <= scenes[k].end_time
    IN  /\ \E k \in 1..Len(scenes) : HasStart(k)
        /\ \E k \in 1..Len(scenes) : HasEnd(k)
        /\ \A k \in 1..Len(scenes) : ~(HasStart(k) /\ HasEnd(k))

Straddlers == { s \in 1..Len(transcript_segments) : Straddles(s) }

\* C7: every scene gets as dialogue exactly the texts, in transcript order,
\* of the segments whose start and end both lie in its closed interval; a
\* straddling segment is in no scene's dialogue.
C7_DialogueWithin ==
    pc = "done" =>
        /\ Len(combined) = Len(scenes)
        /\ \A k \in 1..Len(scenes) :
              /\ combined[k].dialogue = TextsAt(InsideScene(k), 1)
              /\ combined[k].dialogue
                   = TextsAt(InsideScene(k) \ Straddlers, 1)
              /\ combined[k].start_time = scenes[k].start_time
              /\ combined[k].end_time = scenes[k].end_time

\* the boundary case: scenes [0,1.0] and [1.0,2.0], a segment from 0.9 to
\* 1.1 and one from 0 to 0.9; only the latter is attached
C7_Witness ==
    /\ pc = "done"
    /\ Len(scenes) = 2
    /\ scenes[1].start_time = 0 /\ scenes[1].end_time = 10
    /\ scenes[2].start_time = 10 /\ scenes[2].end_time = 20
    /\ transcript_segments
         = << [start |-> 9, end |-> 11, text |-> "hello"],
              [start |-> 0, end |-> 9, text |-> "there"] >>
    /\ Straddles(1)
    /\ combined[1].dialogue = <<"there">>
    /\ combined[2].dialogue = <<>>

----------------------------------------------------------------------------
(* analyze_emotions *)

MaxDuration == 4

SampleRates == { 1, 2 }
Labels == { "happy", "sad" }

\* np.arange(0, duration, sample_rate), in seconds
SampleCount(d, sr) == (d + sr - 1) \div sr
times == [k \in 1..SampleCount(duration, sample_rate) |-> (k - 1) * sample_rate]

SampleRecord(t, dominant) ==
    [time |-> t, dominant_emotion |-> dominant, emotion_scores |-> Labels,
     num_faces |-> 1]

ErrorRecord(t, e) ==
    [time |-> t, dominant_emotion |-> "error", emotion_scores |-> {},
     num_faces |-> 0, error |-> e]

EmInit ==
    /\ duration \in 0..MaxDuration
    /\ sample_rate \in SampleRates
    /\ emotions = <<>>
    /\ raised = "none"
    /\ i = 0
    /\ pc = "start"
    /\ captions = <<>>
    /\ scenes = <<>>
    /\ ScIdle /\ RcIdle /\ CbIdle /\ JobsIdle

EmFixed == <<captions, scenes, scOnly, rep, cbOnly, duration, sample_rate,
             jobVars, gaVars>>

\* get_emotion_model() and mp.VideoFileClip(video_path) succeed
EmOpen ==
    /\ pc = "start"
    /\ pc' = "loop"
    /\ UNCHANGED <<EmFixed, emotions, raised, i>>

\* ... or raise before any sample is taken
EmOpenFails ==
    /\ pc = "start"
    /\ pc' = "raised"
    /\ raised' = "open"
    /\ UNCHANGED <<EmFixed, emotions, i>>

\* clip.get_frame(float(t)) raises: outside the try block
EmGetFrameFails ==
    /\ pc = "loop"
    /\ i < Len(times)
    /\ pc' = "raised"
    /\ raised' = "get_frame"
    /\ UNCHANGED <<EmFixed, emotions, i>>

\* cv2.resize / Image.fromarray raises: outside the try block
EmResizeFails ==
    /\ pc = "loop"
    /\ i < Len(times)
    /\ pc' = "raised"
    /\ raised' = "resize"
    /\ UNCHANGED <<EmFixed, emotions, i>>

\* the classifier raises inside the try block
EmClassifyFails ==
    /\ pc = "loop"
    /\ i < Len(times)
    /\ emotions' = Append(emotions, ErrorRecord(times[i + 1], "classify"))
    /\ i' = i + 1
    /\ UNCHANGED <<EmFixed, raised, pc>>

EmSample ==
    /\ pc = "loop"
    /\ i < Len(times)
    /\ \E dominant \in Labels :
          emotions' = Append(emotions, SampleRecord(times[i + 1], dominant))
    /\ i' = i + 1
    /\ UNCHANGED <<EmFixed, raised, pc>>

EmReturn ==
    /\ pc = "loop"
    /\ i = Len(times)
    /\ pc' = "returned"
    /\ UNCHANGED <<EmFixed, emotions, raised, i>>

EmNext ==
    \/ EmOpen \/ EmOpenFails \/ EmGetFrameFails \/ EmResizeFails
    \/ EmClassifyFails \/ EmSample \/ EmReturn

SpecEmotions == EmInit /\ [][EmNext]_vars

\* C8: a failure while handling one time sample (fetching the frame,
\* resizing it, classifying it) never aborts the stage; the stage goes on
\* with one record per sample handled so far, in time order, and a failed
\* sample's record is the "error" record.
C8_SampleFailureContained ==
    /\ raised \notin { "get_frame", "resize" }
    /\ pc \in { "loop", "returned" } =>
          /\ Len(emotions) = i
          /\ \A k \in 1..i : emotions[k].time = times[k]
          /\ \A k \in 1..i :
                emotions[k].dominant_emotion = "error" =>
                    /\ emotions[k].emotion_scores = {}
                    /\ emotions[k].num_faces = 0
    /\ pc = "returned" => Len(emotions) = Len(times)

----------------------------------------------------------------------------
(* upload_video, analyze_video_endpoint, process_video_task and the result
   backend *)

MaxJobs == 2
MaxUploads == 2

JobIds == 1..MaxJobs
Files == { "a.mp4", "b.mp4" }

\* the progress records process_video_task publishes, in order
Schedule ==
    << [percent |-> 5, step |-> "starting analysis"],
       [percent |-> 20, step |-> "transcribing audio"],
       [percent |-> 40, step |-> "extracting frames"],
       [percent |-> 60, step |-> "captioning frames"],
       [percent |-> 70, step |-> "grouping scenes"],
       [percent |-> 80, step |-> "attaching dialogue"],
       [percent |-> 90, step |-> "analyzing emotions"],
       [percent |-> 100, step |-> "finalizing"] >>

\* what follows each update_state (blocks are numbered from 1 here):
\* the calls that read the file, the calls that may raise, and the
\* description of what they raise
ReadsFile == { 2, 3, 7 }
MayRaise == { 2, 3, 4, 7 }
Raises ==
    [k \in MayRaise |->
        CASE k = 2 -> "transcribe_with_whisper failed"
          [] k = 3 -> "Failed to open video"
          [] k = 4 -> "caption_frames failed"
          [] k = 7 -> "analyze_emotions failed"]

ProgressInfo(k) ==
    [kind |-> "meta", percent |-> Schedule[k].percent,
     step |-> Schedule[k].step, error |-> ""]
ExceptionInfo(e) ==
    [kind |-> "exception", percent |-> 0, step |-> "", error |-> e]
ResultInfo == [kind |-> "result", percent |-> 0, step |-> "", error |-> ""]

Pending == [status |-> "PENDING", info |-> IdleInfo]
NoCache == [status |-> "none", info |-> IdleInfo]

JobInit ==
    /\ storage = [f \in Files |-> 0]
    /\ uploads = 0
    /\ video_path = [j \in JobIds |-> "none"]
    /\ artifact = [j \in JobIds |-> 0]
    /\ task_pc = [j \in JobIds |-> "new"]
    /\ stage = [j \in JobIds |-> 0]
    /\ exc = [j \in JobIds |-> "none"]
    /\ removed = [j \in JobIds |-> 0]
    /\ backend = [j \in JobIds |-> Pending]
    /\ ga_pc = "idle"
    /\ res = [id |-> 0, cache |-> NoCache]
    /\ response = IdleResponse
    /\ last_percent = -1
    /\ captions = <<>> /\ scenes = <<>> /\ i = 0 /\ pc = "start"
    /\ ScIdle /\ RcIdle /\ CbIdle /\ EmIdle

pureVars == <<captions, scenes, i, pc, scOnly, rep, cbOnly, emOnly>>

\* POST /upload-video/: the file is written under its own name, over any
\* file of that name
upload_video(f) ==
    /\ uploads < MaxUploads
    /\ uploads' = uploads + 1
    /\ storage' = [storage EXCEPT ![f] = uploads + 1]
    /\ UNCHANGED <<video_path, artifact, task_pc, stage, exc, removed,
                   backend, gaVars, pureVars>>

\* POST /analyze-video/: 404 unless the file exists, else
\* process_video_task.delay(str(video_path)) under a fresh task id
analyze_video_endpoint(j, f) ==
    /\ storage[f] # 0
    /\ task_pc[j] = "new"
    /\ \A k \in JobIds : k < j => task_pc[k] # "new"
    /\ video_path' = [video_path EXCEPT ![j] = f]
    /\ artifact' = [artifact EXCEPT ![j] = storage[f]]
    /\ task_pc' = [task_pc EXCEPT ![j] = "publish"]
    /\ stage' = [stage EXCEPT ![j] = 1]
    /\ UNCHANGED <<storage, uploads, exc, removed, backend, gaVars, pureVars>>

\* self.update_state(state="PROGRESS", meta=...)
TaskPublish(j) ==
    /\ task_pc[j] = "publish"
    /\ backend' = [backend EXCEPT
                     ![j] = [status |-> "PROGRESS",
                             info |-> ProgressInfo(stage[j])]]
    /\ task_pc' = [task_pc EXCEPT ![j] = "run"]
    /\ UNCHANGED <<storage, uploads, video_path, artifact, stage, exc,
                   removed, gaVars, pureVars>>

\* faulty variant: the exception of a stage is swallowed and the next stage starts
RaiseIgnored(j, e) ==
    /\ exc' = [exc EXCEPT ![j] = e]
    /\ task_pc' = [task_pc EXCEPT ![j] = "publish"]
    /\ stage' = [stage EXCEPT ![j] = @ + 1]

\* an exception leaves the try block for the finally block
Raise(j, e) ==
    /\ exc' = [exc EXCEPT ![j] = e]
    /\ task_pc' = [task_pc EXCEPT ![j] = "finally"]
    /\ UNCHANGED stage

\* the calls after an update_state return normally
TaskRun(j) ==
    /\ task_pc[j] = "run"
    /\ stage[j] \in ReadsFile => storage[video_path[j]] # 0
    /\ IF stage[j] = Len(Schedule)
       THEN task_pc' = [task_pc EXCEPT ![j] = "finally"] /\ UNCHANGED stage
       ELSE /\ task_pc' = [task_pc EXCEPT ![j] = "publish"]
            /\ stage' = [stage EXCEPT ![j] = @ + 1]
    /\ UNCHANGED <<storage, uploads, video_path, artifact, exc, removed,
                   backend, gaVars, pureVars>>

\* ... or one of them raises: always when the file it reads is gone
TaskRaise(j) ==
    /\ task_pc[j] = "run"
    /\ stage[j] \in MayRaise
    /\ Raise(j, Raises[stage[j]])
    /\ UNCHANGED <<storage, uploads, video_path, artifact, removed, backend,
                   gaVars, pureVars>>

\* finally: try: os.remove(video_path) except OSError: pass
TaskFinally(j) ==
    /\ task_pc[j] = "finally"
    /\ IF storage[video_path[j]] # 0
       THEN /\ storage' = [storage EXCEPT ![video_path[j]] = 0]
            /\ removed' = [removed EXCEPT ![j] = @ + 1]
       ELSE UNCHANGED <<storage, removed>>
    /\ task_pc' = [task_pc EXCEPT ![j] = "store"]
    /\ UNCHANGED <<uploads, video_path, artifact, stage, exc, backend,
                   gaVars, pureVars>>

\* the worker stores the outcome of the task function: SUCCESS with the
\* returned result, FAILURE with the exception
TaskStore(j) ==
    /\ task_pc[j] = "store"
    /\ backend' = [backend EXCEPT
                     ![j] = IF exc[j] = "none"
                            THEN [status |-> "SUCCESS", info |-> ResultInfo]
                            ELSE [status |-> "FAILURE",
                                  info |-> ExceptionInfo(exc[j])]]
    /\ task_pc' = [task_pc EXCEPT ![j] = "done"]
    /\ UNCHANGED <<storage, uploads, video_path, artifact, stage, exc,
                   removed, gaVars, pureVars>>

Upload == \E f \in Files : upload_video(f)
Analyze == \E j \in JobIds, f \in Files : analyze_video_endpoint(j, f)
Publish == \E j \in JobIds : TaskPublish(j)
Run == \E j \in JobIds : TaskRun(j)
StageRaises == \E j \in JobIds : TaskRaise(j)
Finally == \E j \in JobIds : TaskFinally(j)
Store == \E j \in JobIds : TaskStore(j)

JobNext ==
    \/ Upload \/ Analyze \/ Publish \/ Run \/ StageRaises \/ Finally
    \/ Store

SpecJobs == JobInit /\ [][JobNext]_vars

----------------------------------------------------------------------------
(* get_analysis: GET /analysis/{job_id} *)

Ready == { "SUCCESS", "FAILURE" }

\* AsyncResult._get_task_meta: the cached meta if a ready state was seen
\* before, else a fresh read of the backend; res.state and res.info each
\* go through it
TaskMeta == IF res.cache.status # "none" THEN res.cache ELSE backend[res.id]

\* ... and a meta in a ready state is cached
Fetched == [res EXCEPT !.cache = IF TaskMeta.status \in Ready
                                 THEN TaskMeta ELSE @]

Respond(r) ==
    /\ response' = r
    /\ last_percent' = IF r.percent >= 0 THEN r.percent ELSE last_percent
    /\ ga_pc' = "idle"

GaFixed == <<jobVars, pureVars>>

\* res = AsyncResult(job_id, app=celery_app)
GaRequest(j) ==
    /\ ga_pc = "idle"
    /\ res' = [id |-> j, cache |-> NoCache]
    /\ ga_pc' = "state_progress"
    /\ UNCHANGED <<response, last_percent, GaFixed>>

\* if res.state == "PROGRESS":
GaStateProgress ==
    /\ ga_pc = "state_progress"
    /\ res' = Fetched
    /\ ga_pc' = IF TaskMeta.status = "PROGRESS" THEN "info"
                ELSE "state_pending"
    /\ UNCHANGED <<response, last_percent, GaFixed>>

\* meta = res.info or {}; the response takes meta.get("percent", 0) and
\* meta.get("step", "working"); an exception object has no get
GaInfo ==
    /\ ga_pc = "info"
    /\ res' = Fetched
    /\ LET meta == TaskMeta.info
       IN  CASE meta.kind = "meta" ->
                  Respond([IdleResponse EXCEPT !.status = "processing",
                                               !.percent = meta.percent,
                                               !.step = meta.step])
             [] meta.kind = "exception" ->
                  Respond([IdleResponse EXCEPT !.status = "error500"])
             [] OTHER ->
                  Respond([IdleResponse EXCEPT !.status = "processing",
                                               !.percent = 0,
                                               !.step = "working"])
    /\ UNCHANGED GaFixed

\* if res.state == "PENDING":
GaStatePending ==
    /\ ga_pc = "state_pending"
    /\ res' = Fetched
    /\ IF TaskMeta.status = "PENDING"
       THEN Respond([IdleResponse EXCEPT !.status = "pending"])
       ELSE ga_pc' = "state_started" /\ UNCHANGED <<response, last_percent>>
    /\ UNCHANGED GaFixed

\* if res.state == "STARTED":
GaStateStarted ==
    /\ ga_pc = "state_started"
    /\ res' = Fetched
    /\ IF TaskMeta.status = "STARTED"
       THEN Respond([IdleResponse EXCEPT !.status = "processing"])
       ELSE ga_pc' = "state_failure" /\ UNCHANGED <<response, last_percent>>
    /\ UNCHANGED GaFixed

\* if res.state == "FAILURE": "error": str(res.info)
GaStateFailure ==
    /\ ga_pc = "state_failure"
    /\ res' = Fetched
    /\ IF TaskMeta.status = "FAILURE"
       THEN Respond([IdleResponse EXCEPT !.status = "failed",
                                         !.error = TaskMeta.info.error])
       ELSE ga_pc' = "state_success" /\ UNCHANGED <<response, last_percent>>
    /\ UNCHANGED GaFixed

\* if res.state == "SUCCESS": "result": res.result
GaStateSuccess ==
    /\ ga_pc = "state_success"
    /\ res' = Fetched
    /\ IF TaskMeta.status = "SUCCESS"
       THEN Respond([IdleResponse EXCEPT !.status = "completed",
                                         !.result = TaskMeta.info.kind])
       ELSE ga_pc' = "fallthrough" /\ UNCHANGED <<response, last_percent>>
    /\ UNCHANGED GaFixed

\* return {"status": res.state.lower()}
GaFallthrough ==
    /\ ga_pc = "fallthrough"
    /\ res' = Fetched
    /\ Respond([IdleResponse EXCEPT
                  !.status = CASE TaskMeta.status = "PENDING" -> "pending"
                               [] TaskMeta.status = "PROGRESS" -> "progress"
                               [] TaskMeta.status = "SUCCESS" -> "success"
                               [] TaskMeta.status = "FAILURE" -> "failure"])
    /\ UNCHANGED GaFixed

\* the job whose status is followed
Watched == CHOOSE j \in JobIds : \A k \in JobIds : j <= k

AnalyzeWatched == \E f \in Files : analyze_video_endpoint(Watched, f)
Request == GaRequest(Watched)

StatusNext ==
    \/ Upload \/ AnalyzeWatched \/ Publish \/ Run \/ StageRaises \/ Finally
    \/ Store
    \/ Request \/ GaStateProgress \/ GaInfo \/ GaStatePending
    \/ GaStateStarted \/ GaStateFailure \/ GaStateSuccess \/ GaFallthrough

SpecStatus == JobInit /\ [][StatusNext]_vars

----------------------------------------------------------------------------
(* Claims about the job machinery *)

Terminal(j) == backend[j].status \in Ready

\* C2: whichever way a run ends, it has deleted its input artifact exactly
\* once, and once the job's status is terminal the artifact is absent from
\* storage.
C2_ArtifactDeletedOnce ==
    \A j \in JobIds :
        Terminal(j) =>
            /\ removed[j] = 1
            /\ storage[video_path[j]] # artifact[j]

\* C3: the percent values successive status queries return for one job
\* never decrease.
C3_PercentNonDecreasing ==
    [][last_percent' >= last_percent]_vars

\* a job that still has a call ahead of it that reads its file
StillReading(j) ==
    /\ task_pc[j] \in { "publish", "run" }
    /\ \E k \in ReadsFile : k >= stage[j]

\* C5: no job's cleanup deletes the file another job that is not yet
\* terminal is still using, and a job's progress record changes only by a
\* step of that job.
C5_JobsIsolated ==
    [][ \A j \in JobIds :
          /\ removed'[j] > removed[j] =>
                \A k \in JobIds \ {j} :
                    ~(video_path[k] = video_path[j] /\ ~Terminal(k)
                      /\ StillReading(k))
          /\ backend'[j] # backend[j] => task_pc'[j] # task_pc[j] ]_vars

\* C4: once a stage of a job has raised, no later stage starts and no
\* further progress record is published; the job ends FAILURE with the
\* exception, after the cleanup has run; a "failed" status response carries
\* the stringified exception and no result.
C4_FailureAborts ==
    /\ [](\A j \in JobIds :
            /\ backend[j].status = "FAILURE" =>
                  /\ exc[j] # "none"
                  /\ backend[j].info = ExceptionInfo(exc[j])
                  /\ task_pc[j] = "done"
                  /\ storage[video_path[j]] # artifact[j]
            /\ (exc[j] # "none" /\ task_pc[j] = "done") =>
                  backend[j].status = "FAILURE")
    /\ [](response.status = "failed" =>
            /\ response.error = exc[res.id]
            /\ response.error # "none" /\ response.error # ""
            /\ response.result = "none"
            /\ response.percent = -1)
    /\ [][ \A j \in JobIds :
             exc[j] # "none" =>
                /\ stage'[j] = stage[j]
                /\ task_pc'[j] \notin { "publish", "run" }
                /\ (backend'[j] = backend[j]
                    \/ backend'[j].status = "FAILURE") ]_vars

\* a stage raised after progress was published, the file was removed, and
\* the status query answered "failed" with the exception
C4_Witness ==
    /\ response.status = "failed"
    /\ response.error = "caption_frames failed"
    /\ exc[res.id] = "caption_frames failed"
    /\ removed[res.id] = 1
    /\ backend[res.id].status = "FAILURE"
    /\ last_percent = 60

=============================================================================
